---- MODULE Spec2Model ----
(***************************************************************************)
(* Model of resumeanalyzer.py (JobFit AI): the three-step Streamlit flow   *)
(* of main().  One action is one run of the script, triggered by one user  *)
(* interaction: the script reads st.session_state.step, renders the branch *)
(* of that step (if / elif / elif) and runs the handler of the widget the  *)
(* user operated.  There is no st.rerun(): a handler that changes step     *)
(* does not re-render, so the widgets on screen (view) are those of the    *)
(* branch rendered by the last run.  Spec is the session of a process      *)
(* whose GEMINI_API_KEY is set; StartupSpec also starts processes without  *)
(* it, where main() stops at line 187, before st.session_state is          *)
(* initialised.                                                            *)
(***************************************************************************)
EXTENDS Integers, Sequences, FiniteSets, TLC

VARIABLES
    api_key,          \* os.getenv("GEMINI_API_KEY") of the server process
    step,             \* st.session_state.step
    resume_content,   \* st.session_state.resume_content
    job_description,  \* st.session_state.job_description
    analysis_option,  \* st.session_state.analysis_option
    custom_query,     \* st.session_state.custom_query
    analysis_result,  \* st.session_state.analysis_result
    audio_path,       \* st.session_state.audio_path
    uploaded_file,    \* value held by the st.file_uploader widget
    view,             \* branch rendered by the last run (widgets on screen)
    files,            \* temporary .mp3 files on disk: path -> content
    next_path,        \* number of temporary files created so far
    clicked,          \* the button whose st.button(...) was True in the last run
    log,              \* calls and messages of the last run, in order
    download_data,    \* data handed to st.download_button in the last run
    request,          \* arguments of generate_content in the last run
    response,         \* what generate_content did in the last run
    active,           \* the browser session whose st.session_state is above
    parked            \* st.session_state and widgets of the other session

vars == <<api_key, step, resume_content, job_description, analysis_option,
          custom_query, analysis_result, audio_path, uploaded_file, view, files,
          next_path, clicked, log, download_data, request, response, active,
          parked>>

\* What belongs to one session: its st.session_state and its widgets.  The
\* key, the files on disk and the names already given to files belong to the
\* process.
Session ==
    [step |-> step, resume_content |-> resume_content,
     job_description |-> job_description, analysis_option |-> analysis_option,
     custom_query |-> custom_query, analysis_result |-> analysis_result,
     audio_path |-> audio_path, uploaded_file |-> uploaded_file, view |-> view]

-----------------------------------------------------------------------------
(* Bounds *)

MaxArtifacts == 2     \* temporary files one session creates

-----------------------------------------------------------------------------
(* Values *)

None == <<"None">>                \* Python None
NoOption == "None"                \* None as analysis_option (keys are strings)
NotRendered == <<"NotRendered">>  \* the widget was not constructed in the run
NoRequest == << >>                \* generate_content was not called in the run
NoResponse == <<"NoResponse">>    \* and so it returned nothing

NoStep == 0                       \* st.session_state has no step; no branch
Absent == <<"Absent">>            \* the key is not in st.session_state
AbsentOption == "Absent"          \* the same for analysis_option

\* What the user can type in a text area: nothing, whitespace only, a word
\* between whitespace.
Texts == {<< >>, <<" ">>, <<" ", "x", " ">>}

\* Python truthiness of an optional string: None and "" are falsy.
Truthy(s) == s # None /\ s # << >>

\* Mutant of strip: the whitespace is kept.
strip_nothing(s) == s

\* str.strip(): drop leading and trailing whitespace.
RECURSIVE LStrip(_)
LStrip(s) == IF s # << >> /\ Head(s) = " " THEN LStrip(Tail(s)) ELSE s

RECURSIVE RStrip(_)
RStrip(s) ==
    IF s # << >> /\ s[Len(s)] = " " THEN RStrip(SubSeq(s, 1, Len(s) - 1)) ELSE s

strip(s) == RStrip(LStrip(s))


\* Values of GEMINI_API_KEY: not set, set to "", set to a key.
Keys == {None, << >>, <<"k">>}

\* Mutant of load_dotenv_config: the key is not looked at.
load_dotenv_config_always(value) == TRUE

\* load_dotenv_config(): TRUE iff the key is set and not empty.
load_dotenv_config(value) == Truthy(value)

-----------------------------------------------------------------------------
(* Prompt catalog *)

FixedOptions == {"resume_review", "skill_improvement", "missing_keywords",
                 "match_ats", "market_insights", "career_path", "upskilling",
                 "linkedin"}

\* The keys of the analysis_options dictionary of step 2 (lines 388-428),
\* one "Select ..." button each.
analysis_options ==
    {"resume_review", "skill_improvement", "missing_keywords", "match_ats",
     "market_insights", "career_path", "upskilling", "linkedin", "custom"}

\* Mutant of get_analysis_prompts: the templates end with the custom question.
get_analysis_prompts_appends(query) ==
    [k \in FixedOptions \cup {"custom"} |->
        IF k = "custom" THEN query ELSE <<"template", k>> \o query]

\* get_analysis_prompts(custom_query): a fixed template per option (the
\* template text is represented by its key), custom_query under "custom".
get_analysis_prompts(query) ==
    [k \in FixedOptions \cup {"custom"} |->
        IF k = "custom" THEN query ELSE <<"template", k>>]

-----------------------------------------------------------------------------
(* External collaborators *)

\* Uploaded PDFs: unreadable bytes, a page without text, a page with text,
\* two pages without text (their join is one space).  NoFile is the value of
\* an empty st.file_uploader (None).
PageLists == {<< << >> >>, << <<"x">> >>, << << >>, << >> >>}
NoFile == [present |-> FALSE, readable |-> FALSE, pages |-> << >>]
Documents ==
    {[present |-> TRUE, readable |-> FALSE, pages |-> << >>]} \cup
    {[present |-> TRUE, readable |-> TRUE, pages |-> ps] : ps \in PageLists}

\* " ".join(text_parts)
RECURSIVE Join(_)
Join(parts) ==
    IF parts = << >> THEN << >>
    ELSE IF Len(parts) = 1 THEN parts[1]
    ELSE parts[1] \o <<" ">> \o Join(Tail(parts))

\* Whether fitz raises on the file: always on unreadable bytes, and possibly
\* on a readable file.
Raises(file) == IF file.present /\ file.readable THEN BOOLEAN ELSE {TRUE}

\* Mutant of extract_pdf_text: the except branch returns the error text.
extract_pdf_text_returns_error(file, raises) ==
    IF ~file.present THEN [value |-> None, log |-> << >>]
    ELSE IF raises
         THEN [value |-> <<"x">>,
               log |-> <<"fitz.open", "st.error: Error processing PDF file">>]
         ELSE [value |-> Join(file.pages), log |-> <<"fitz.open">>]

\* extract_pdf_text(uploaded_file); raises says whether fitz raises.
extract_pdf_text(file, raises) ==
    IF ~file.present THEN [value |-> None, log |-> << >>]
    ELSE IF raises
         THEN [value |-> None,
               log |-> <<"fitz.open", "st.error: Error processing PDF file">>]
         ELSE [value |-> Join(file.pages), log |-> <<"fitz.open">>]

\* Length of the audio summary: analysis_result[:500].
SummaryChars == 500

Rep(c, n) == [i \in 1..n |-> c]

\* Texts response.text can be: empty, shorter than the audio summary, longer.
ResultTexts == {<< >>, <<"a">>, Rep("a", SummaryChars) \o <<"b">>}

\* What model.generate_content does: block the prompt, raise, or answer.
Blocked == <<"blocked">>
Raised == <<"raised">>
GeminiOutcomes == {Blocked, Raised} \cup ResultTexts

\* Mutant of get_gemini_response: a block is reported with the message of
\* the except branch.
get_gemini_response_one_message(outcome) ==
    IF outcome = Blocked \/ outcome = Raised
    THEN [value |-> None,
          log |-> <<"generate_content",
                    "st.error: Error interacting with Gemini API">>]
    ELSE [value |-> outcome, log |-> <<"generate_content">>]

\* Mutant of get_gemini_response: a call that raised is repeated once.
get_gemini_response_retries(outcome) ==
    IF outcome = Blocked
    THEN [value |-> None,
          log |-> <<"generate_content", "st.error: Content generation blocked">>]
    ELSE IF outcome = Raised
    THEN [value |-> None,
          log |-> <<"generate_content", "generate_content",
                    "st.error: Error interacting with Gemini API">>]
    ELSE [value |-> outcome, log |-> <<"generate_content">>]

\* get_gemini_response(input_prompt, pdf_content, job_desc)
get_gemini_response(outcome) ==
    IF outcome = Blocked
    THEN [value |-> None,
          log |-> <<"generate_content", "st.error: Content generation blocked">>]
    ELSE IF outcome = Raised
    THEN [value |-> None,
          log |-> <<"generate_content",
                    "st.error: Error interacting with Gemini API">>]
    ELSE [value |-> outcome, log |-> <<"generate_content">>]

\* text[:n]
Slice(text, n) == SubSeq(text, 1, IF Len(text) < n THEN Len(text) ELSE n)

\* Mutant of TempName: every temporary file gets the same name.
TempName_one_name(n) == <<"tmp", 0>>

\* tempfile.NamedTemporaryFile(delete=False, suffix=".mp3"): a new name.
TempName(n) == <<"tmp", n>>

\* How gTTS behaves: it saves the clip, it raises before the temporary file
\* is created (gTTS(...), line 63), or tts.save raises after it (line 65).
TTSOutcomes == {"saved", "raises_in_gTTS", "raises_in_save"}

\* Mutant of speak_text: the except branch returns the name of the file
\* that was created.
speak_text_returns_name(text, outcome, fs, created) ==
    IF ~Truthy(text)
    THEN [value |-> None, files |-> fs, created |-> created, log |-> << >>]
    ELSE IF outcome = "raises_in_gTTS"
    THEN [value |-> None, files |-> fs, created |-> created,
          log |-> <<"gTTS", "st.error: Error generating audio">>]
    ELSE LET name == TempName(created + 1)
             content == IF outcome = "raises_in_save"
                        THEN [saved |-> FALSE, text |-> << >>]
                        ELSE [saved |-> TRUE, text |-> text]
         IN  [value |-> name,
              files |-> [p \in DOMAIN fs \cup {name} |->
                            IF p = name THEN content ELSE fs[p]],
              created |-> created + 1,
              log |-> <<"gTTS", "NamedTemporaryFile", "tts.save">> \o
                      (IF outcome = "raises_in_save"
                       THEN <<"st.error: Error generating audio">> ELSE << >>)]

\* speak_text(text) on the file system fs with created files so far.
speak_text(text, outcome, fs, created) ==
    IF ~Truthy(text)
    THEN [value |-> None, files |-> fs, created |-> created, log |-> << >>]
    ELSE IF outcome = "raises_in_gTTS"
    THEN [value |-> None, files |-> fs, created |-> created,
          log |-> <<"gTTS", "st.error: Error generating audio">>]
    ELSE LET name == TempName(created + 1)
             with(content) ==
                 [p \in DOMAIN fs \cup {name} |->
                     IF p = name THEN content ELSE fs[p]]
         IN  IF outcome = "raises_in_save"
             THEN [value |-> None,
                   files |-> with([saved |-> FALSE, text |-> << >>]),
                   created |-> created + 1,
                   log |-> <<"gTTS", "NamedTemporaryFile", "tts.save",
                             "st.error: Error generating audio">>]
             ELSE [value |-> name,
                   files |-> with([saved |-> TRUE, text |-> text]),
                   created |-> created + 1,
                   log |-> <<"gTTS", "NamedTemporaryFile", "tts.save">>]

\* cleanup_temp_file(file_path): unlink the file if it exists.  os.unlink of
\* a file this process created and closed is taken to succeed.
cleanup_temp_file(path, fs) ==
    IF Truthy(path) /\ path \in DOMAIN fs
    THEN [files |-> [p \in DOMAIN fs \ {path} |-> fs[p]], log |-> <<"os.unlink">>]
    ELSE [files |-> fs, log |-> << >>]

-----------------------------------------------------------------------------
(* Session state *)

\* What a run shows when load_dotenv_config() is False (lines 184-187).
StartupError == <<"st.error: GEMINI_API_KEY not found", "st.stop">>

\* The first run of main() in a process whose GEMINI_API_KEY is key.  With
\* the key: the defaults of st.session_state, and the step-1 branch rendered
\* with an empty uploader.  Without it: st.stop() ends the run before
\* st.session_state gets its defaults and before any branch is rendered.
FirstRun(key) ==
    /\ api_key = key
    /\ IF load_dotenv_config(key)
       THEN /\ step = 1
            /\ resume_content = None
            /\ job_description = << >>
            /\ analysis_option = NoOption
            /\ custom_query = << >>
            /\ analysis_result = None
            /\ audio_path = None
            /\ view = 1
            /\ log = << >>
       ELSE /\ step = NoStep
            /\ resume_content = Absent
            /\ job_description = Absent
            /\ analysis_option = AbsentOption
            /\ custom_query = Absent
            /\ analysis_result = Absent
            /\ audio_path = Absent
            /\ view = NoStep
            /\ log = StartupError
    /\ uploaded_file = NoFile
    /\ files = << >>
    /\ next_path = 0
    /\ clicked = "none"
    /\ download_data = NotRendered
    /\ request = NoRequest
    /\ response = NoResponse
    /\ active = 1
    /\ parked = Session

\* The session of a process that has its key.
Init == FirstRun(<<"k">>)

\* The session of a process with any setting of the key.
StartupInit == \E key \in Keys : FirstRun(key)

\* A run of main() in a process without the key: it stops at line 187 as the
\* first run did, whatever the user did to start it (a reload; no widget
\* was rendered).
HaltedRun ==
    /\ ~load_dotenv_config(api_key)
    /\ log' = StartupError
    /\ UNCHANGED <<api_key, step, resume_content, job_description,
                   analysis_option, custom_query, analysis_result, audio_path,
                   uploaded_file, view, files, next_path, clicked,
                   download_data, request, response, active, parked>>

\* Mutant of go_to_step: step 1 is not entered again.
go_to_step_no_return(n) == step' = IF n = 1 THEN step ELSE n

\* Mutant of go_to_step: the step never decreases.
go_to_step_forward_only(n) == step' = IF n < step THEN step ELSE n

\* go_to_step(step)
go_to_step(n) == step' = n

\* The widgets of a branch take user input only if the last run rendered them.
OnScreen(branch) == step = branch /\ view = branch

-----------------------------------------------------------------------------
(* Step 1: upload documents *)

\* Mutant of continue_rejection: the job description is not checked.
continue_rejection_resume_only(content, jd) ==
    IF ~Truthy(content)
    THEN <<"st.error: Please upload your resume to continue.">>
    ELSE << >>

\* The validation of "Continue to Analysis Options" (lines 375-378): the
\* message shown when the click is rejected, << >> when it is accepted.
continue_rejection(content, jd) ==
    IF ~Truthy(content)
    THEN <<"st.error: Please upload your resume to continue.">>
    ELSE IF ~Truthy(strip(jd))
    THEN <<"st.error: Please paste the job description to continue.">>
    ELSE << >>

\* One run of the step-1 branch.  file and jd_value are the values of the
\* uploader and of the job description text area in this run, continue says
\* whether "Continue to Analysis Options" was clicked.
Step1Run(widget, file, raises, jd_value, continue) ==
    LET extracted == extract_pdf_text(file, raises)
        content == IF file.present THEN extracted.value ELSE resume_content
        upload_log ==
            IF ~file.present THEN << >>
            ELSE extracted.log \o
                 <<IF Truthy(content)
                   THEN "st.success: Resume uploaded successfully!"
                   ELSE "st.error: Failed to process the PDF. Please try again.">>
        button_log ==
            IF continue THEN continue_rejection(content, jd_value) ELSE << >>
        accepted == continue /\ button_log = << >>
    IN  /\ load_dotenv_config(api_key)
        /\ step = 1
        /\ resume_content' = content
        /\ job_description' = jd_value
        /\ IF accepted THEN go_to_step(2) ELSE UNCHANGED step
        /\ uploaded_file' = file
        /\ view' = 1
        /\ clicked' = widget
        /\ log' = upload_log \o button_log
        /\ download_data' = NotRendered
        /\ request' = NoRequest
        /\ response' = NoResponse
        /\ UNCHANGED <<api_key, analysis_option, custom_query,
                       analysis_result, audio_path, files, next_path, active,
                       parked>>

\* The user picks a PDF in the uploader.
UploadResume ==
    /\ OnScreen(1)
    /\ \E file \in Documents :
          \E raises \in Raises(file) :
             Step1Run("none", file, raises, job_description, FALSE)

\* The user removes the file from the uploader.
RemoveUpload ==
    /\ OnScreen(1)
    /\ uploaded_file.present
    /\ Step1Run("none", NoFile, FALSE, job_description, FALSE)

\* The user edits the job description.
EditJobDescription ==
    /\ OnScreen(1)
    /\ \E jd \in Texts \ {job_description}, raises \in Raises(uploaded_file) :
          Step1Run("none", uploaded_file, raises, jd, FALSE)

\* The user clicks "Continue to Analysis Options"; an edit of the job
\* description not yet sent arrives with the click.
Continue ==
    /\ OnScreen(1)
    /\ \E jd \in Texts, raises \in Raises(uploaded_file) :
          Step1Run("Continue to Analysis Options", uploaded_file, raises, jd, TRUE)

-----------------------------------------------------------------------------
(* Step 2: analysis options *)

\* Mutant of analyze_rejection: the custom question is not checked.
analyze_rejection_option_only(option, query) ==
    IF option = NoOption
    THEN <<"st.error: Please select an analysis type.">>
    ELSE << >>

\* The validation of "Analyze Now" (lines 484-487): the message shown when
\* the click is rejected, << >> when it is accepted.
analyze_rejection(option, query) ==
    IF option = NoOption
    THEN <<"st.error: Please select an analysis type.">>
    ELSE IF option = "custom" /\ ~Truthy(strip(query))
    THEN <<"st.error: Please enter your custom question.">>
    ELSE << >>

\* Mutant of release_previous: the previous clip is not deleted.
release_previous_skipped(path, fs) == [files |-> fs, log |-> << >>]

\* Lines 504-505: the clip of the previous analysis is deleted.
release_previous(path, fs) ==
    IF Truthy(path) THEN cleanup_temp_file(path, fs)
    ELSE [files |-> fs, log |-> << >>]

\* Mutant of analyze_success: step 3 is entered only with an audio clip.
analyze_success_needs_audio(text, tts) ==
    LET cleaned == IF Truthy(audio_path)
                   THEN cleanup_temp_file(audio_path, files)
                   ELSE [files |-> files, log |-> << >>]
        spoken == speak_text(Slice(text, SummaryChars), tts, cleaned.files,
                             next_path)
    IN  [result |-> text, path |-> spoken.value, files |-> spoken.files,
         created |-> spoken.created,
         step |-> IF Truthy(spoken.value) THEN 3 ELSE step,
         log |-> cleaned.log \o spoken.log]

\* Mutant of analyze_success: an audio file already held is kept.
analyze_success_keeps_audio(text, tts) ==
    IF Truthy(audio_path)
    THEN [result |-> text, path |-> audio_path, files |-> files,
          created |-> next_path, step |-> 3, log |-> << >>]
    ELSE LET spoken == speak_text(Slice(text, SummaryChars), tts, files,
                                  next_path)
         IN  [result |-> text, path |-> spoken.value, files |-> spoken.files,
              created |-> spoken.created, step |-> 3, log |-> spoken.log]

\* Lines 503-511: the analysis returned text.
analyze_success(text, tts) ==
    LET cleaned == release_previous(audio_path, files)
        spoken == speak_text(Slice(text, SummaryChars), tts, cleaned.files,
                             next_path)
    IN  [result |-> text, path |-> spoken.value, files |-> spoken.files,
         created |-> spoken.created, step |-> 3,
         log |-> cleaned.log \o spoken.log]

\* Mutant of analyze_failure: the audio file held is released.
analyze_failure_releases_audio(value) ==
    [result |-> value, path |-> None,
     files |-> release_previous(audio_path, files).files,
     created |-> next_path, step |-> step,
     log |-> <<"st.error: Failed to generate analysis. Please try again.">>]

\* Mutant of analyze_failure: go_to_step(3) is reached on failure too.
analyze_failure_advances(value) ==
    [result |-> value, path |-> audio_path, files |-> files,
     created |-> next_path, step |-> 3,
     log |-> <<"st.error: Failed to generate analysis. Please try again.">>]

\* Lines 512-513: the analysis returned nothing.
analyze_failure(value) ==
    [result |-> value, path |-> audio_path, files |-> files,
     created |-> next_path, step |-> step,
     log |-> <<"st.error: Failed to generate analysis. Please try again.">>]

\* The handler of "Analyze Now" (lines 484-513) on the option and query of
\* the run.  gemini and tts are what the two services do if they are called.
AnalyzeNowHandler(option, query, gemini, tts) ==
    LET rejection == analyze_rejection(option, query)
        prompts == get_analysis_prompts(query)
        selected_prompt == prompts[option]
        answer == get_gemini_response(gemini)
        outcome == IF Truthy(answer.value)
                   THEN analyze_success(answer.value, tts)
                   ELSE analyze_failure(answer.value)
    IN  IF rejection # << >>
        THEN [result |-> analysis_result, path |-> audio_path, files |-> files,
              created |-> next_path, step |-> step, request |-> NoRequest,
              response |-> NoResponse, log |-> rejection]
        ELSE [result |-> outcome.result, path |-> outcome.path,
              files |-> outcome.files, created |-> outcome.created,
              step |-> outcome.step,
              request |-> <<selected_prompt, resume_content, job_description>>,
              response |-> gemini,
              log |-> answer.log \o outcome.log]

\* One run of the step-2 branch.  select is the key of the "Select ..."
\* button clicked (NoOption: none), query_value the value of the custom
\* question text area if it is rendered, button the navigation button clicked.
Step2Run(widget, select, query_value, button, gemini, tts) ==
    LET option == IF select # NoOption THEN select ELSE analysis_option
        query == IF option = "custom" THEN query_value ELSE custom_query
        done == AnalyzeNowHandler(option, query, gemini, tts)
    IN  /\ load_dotenv_config(api_key)
        /\ step = 2
        /\ analysis_option' = option
        /\ custom_query' = query
        /\ IF button = "Back"
           THEN /\ go_to_step(1)
                /\ log' = << >>
                /\ request' = NoRequest
                /\ response' = NoResponse
                /\ UNCHANGED <<analysis_result, audio_path, files, next_path>>
           ELSE IF button = "Analyze Now"
           THEN /\ go_to_step(done.step)
                /\ analysis_result' = done.result
                /\ audio_path' = done.path
                /\ files' = done.files
                /\ next_path' = done.created
                /\ log' = done.log
                /\ request' = done.request
                /\ response' = done.response
           ELSE /\ log' = << >>
                /\ request' = NoRequest
                /\ response' = NoResponse
                /\ UNCHANGED <<step, analysis_result, audio_path, files,
                               next_path>>
        /\ uploaded_file' = NoFile
        /\ view' = 2
        /\ clicked' = widget
        /\ download_data' = NotRendered
        /\ UNCHANGED <<api_key, resume_content, job_description, active,
                       parked>>

\* The custom question text area is on screen, so the user can have typed.
QueryOnScreen == OnScreen(2) /\ analysis_option = "custom"

\* The user clicks one of the nine "Select ..." buttons.
SelectOption ==
    /\ OnScreen(2)
    /\ \E key \in analysis_options :
          Step2Run("Select", key, custom_query, "none", Raised, "saved")

\* The user edits the custom question.
EditCustomQuery ==
    /\ QueryOnScreen
    /\ \E query \in Texts \ {custom_query} :
          Step2Run("none", NoOption, query, "none", Raised, "saved")

\* The user clicks "<- Back".
Back ==
    /\ OnScreen(2)
    /\ Step2Run("Back", NoOption, custom_query, "Back", Raised, "saved")

\* The user clicks "Analyze Now ->"; an edit of the custom question not yet
\* sent arrives with the click.
AnalyzeNow ==
    /\ OnScreen(2)
    /\ next_path < MaxArtifacts
    /\ \E query \in (IF QueryOnScreen THEN Texts ELSE {custom_query}),
          gemini \in GeminiOutcomes, tts \in TTSOutcomes :
          Step2Run("Analyze Now", NoOption, query, "Analyze Now", gemini, tts)

-----------------------------------------------------------------------------
(* Step 3: results *)

\* Mutant of start_new_analysis: custom_query is not reset.
start_new_analysis_keeps_query ==
    LET cleaned == IF Truthy(audio_path)
                   THEN cleanup_temp_file(audio_path, files)
                   ELSE [files |-> files, log |-> << >>]
    IN  [files |-> cleaned.files, path |-> None, option |-> NoOption,
         result |-> None, query |-> custom_query, step |-> 1,
         log |-> cleaned.log]

\* Mutant of start_new_analysis: the first step is numbered 0.
start_new_analysis_step_zero ==
    LET cleaned == IF Truthy(audio_path)
                   THEN cleanup_temp_file(audio_path, files)
                   ELSE [files |-> files, log |-> << >>]
    IN  [files |-> cleaned.files, path |-> None, option |-> NoOption,
         result |-> None, query |-> << >>, step |-> 0, log |-> cleaned.log]

\* The handler of "Start New Analysis" (lines 548-557).
start_new_analysis ==
    LET cleaned == IF Truthy(audio_path)
                   THEN cleanup_temp_file(audio_path, files)
                   ELSE [files |-> files, log |-> << >>]
    IN  [files |-> cleaned.files, path |-> None, option |-> NoOption,
         result |-> None, query |-> << >>, step |-> 1, log |-> cleaned.log]

\* One run of the step-3 branch; button is the button clicked, if any.  The
\* download button (line 560) is constructed after the handlers have run.
Step3Run(widget, button) ==
    LET shown ==
            IF Truthy(analysis_result)
            THEN <<"st.markdown: analysis_result">> \o
                 (IF Truthy(audio_path) THEN <<"st.audio">> ELSE << >>)
            ELSE <<"st.error: No analysis results found. Please go back and try again.">>
        reset == start_new_analysis
    IN  /\ load_dotenv_config(api_key)
        /\ step = 3
        /\ IF Truthy(analysis_result) /\ button = "Back to Analysis Options"
           THEN /\ go_to_step(2)
                /\ log' = shown
                /\ UNCHANGED <<analysis_option, analysis_result, custom_query,
                               audio_path, files>>
           ELSE IF Truthy(analysis_result) /\ button = "Start New Analysis"
           THEN /\ files' = reset.files
                /\ audio_path' = reset.path
                /\ analysis_option' = reset.option
                /\ analysis_result' = reset.result
                /\ custom_query' = reset.query
                /\ go_to_step(reset.step)
                /\ log' = shown \o reset.log
           ELSE IF ~Truthy(analysis_result) /\ button = "Back to Start"
           THEN /\ go_to_step(1)
                /\ log' = shown
                /\ UNCHANGED <<analysis_option, analysis_result, custom_query,
                               audio_path, files>>
           ELSE /\ log' = shown
                /\ UNCHANGED <<step, analysis_option, analysis_result,
                               custom_query, audio_path, files>>
        /\ download_data' =
               IF Truthy(analysis_result) THEN analysis_result' ELSE NotRendered
        /\ uploaded_file' = NoFile
        /\ view' = 3
        /\ clicked' = widget
        /\ request' = NoRequest
        /\ response' = NoResponse
        /\ UNCHANGED <<api_key, resume_content, job_description, next_path,
                       active, parked>>

\* The buttons of the results view are rendered only with a result.
ResultOnScreen == OnScreen(3) /\ Truthy(analysis_result)

\* The user clicks "<- Back to Analysis Options".
BackToAnalysisOptions ==
    /\ ResultOnScreen
    /\ Step3Run("Back to Analysis Options", "Back to Analysis Options")

\* The user clicks "Start New Analysis".
StartNewAnalysis ==
    /\ ResultOnScreen
    /\ Step3Run("Start New Analysis", "Start New Analysis")

\* The user clicks "<- Back to Start", rendered when step 3 has no result.
\* It is no disjunct of Next: StepImpliesInputs shows that no reachable state
\* enables it.
BackToStart ==
    /\ OnScreen(3)
    /\ ~Truthy(analysis_result)
    /\ Step3Run("Back to Start", "Back to Start")

-----------------------------------------------------------------------------
(* Runs without a handled widget *)

\* The script runs again and no widget of the rendered branch has a new
\* value: the user operated a widget of the previous view that the branch of
\* the current step does not render, or asked for a rerun.  A file still held
\* by the uploader is extracted again.
Rerun ==
    \/ /\ step = 1
       /\ \E raises \in Raises(uploaded_file) :
             Step1Run("none", IF view = 1 THEN uploaded_file ELSE NoFile,
                      raises, job_description, FALSE)
    \/ /\ step = 2
       /\ Step2Run("none", NoOption, custom_query, "none", Raised, "saved")
    \/ /\ step = 3
       /\ Step3Run("none", "none")

Next ==
    \/ UploadResume
    \/ RemoveUpload
    \/ EditJobDescription
    \/ Continue
    \/ SelectOption
    \/ EditCustomQuery
    \/ Back
    \/ AnalyzeNow
    \/ BackToAnalysisOptions
    \/ StartNewAnalysis
    \/ Rerun

Spec == Init /\ [][Next]_vars

\* Processes with and without the key.
StartupNext == Next \/ HaltedRun

StartupSpec == StartupInit /\ [][StartupNext]_vars

-----------------------------------------------------------------------------
(* Two sessions of one process *)

\* The user of the other browser session acts next: the two sessions change
\* places.  Each has its own st.session_state and widgets; the process, its
\* files and the file names in use are common to both.  The observations of
\* the last run are dropped with the session they belong to.
SwitchSession ==
    /\ load_dotenv_config(api_key)
    /\ active' = IF active = 1 THEN 2 ELSE 1
    /\ parked' = Session
    /\ step' = parked.step
    /\ resume_content' = parked.resume_content
    /\ job_description' = parked.job_description
    /\ analysis_option' = parked.analysis_option
    /\ custom_query' = parked.custom_query
    /\ analysis_result' = parked.analysis_result
    /\ audio_path' = parked.audio_path
    /\ uploaded_file' = parked.uploaded_file
    /\ view' = parked.view
    /\ clicked' = "none"
    /\ log' = << >>
    /\ download_data' = NotRendered
    /\ request' = NoRequest
    /\ response' = NoResponse
    /\ UNCHANGED <<api_key, files, next_path>>

\* The inputs of the runs with two sessions: one readable resume, one job
\* description, one of the fixed options, an answer or an exception of the
\* client, every outcome of the synthesizer.
FewInputs ==
    /\ uploaded_file \in {NoFile, [present |-> TRUE, readable |-> TRUE,
                                    pages |-> << <<"x">> >>]}
    /\ resume_content \in {None, <<"x">>}
    /\ job_description \in {<< >>, <<" ", "x", " ">>}
    /\ analysis_option \in {NoOption, "linkedin"}
    /\ custom_query = << >>
    /\ response \in {NoResponse, Raised, <<"a">>}

TwoSessionsNext == (Next /\ FewInputs') \/ SwitchSession

TwoSessions == Init /\ [][TwoSessionsNext]_vars

-----------------------------------------------------------------------------
(* Vocabulary of the properties *)

Shown(message) == \E i \in 1..Len(log) : log[i] = message
Called(call) == \E i \in 1..Len(log) : log[i] = call

\* Empty or whitespace only.
Blank(text) == \A i \in 1..Len(text) : text[i] = " "

\* An optional text is present: it is set and not empty.
Present(text) == text # None /\ Len(text) > 0

ValidationErrors ==
    {"st.error: Please upload your resume to continue.",
     "st.error: Please paste the job description to continue.",
     "st.error: Please select an analysis type.",
     "st.error: Please enter your custom question."}

ClientInvoked == request # NoRequest \/ Called("generate_content")
ClientFailed == response \in {Blocked, Raised, << >>}
ClientAnswered == response \notin {NoResponse, Blocked, Raised, << >>}
SynthesizerInvoked == Called("gTTS")
SynthesizerFailed == Shown("st.error: Error generating audio")

\* Positions of a call in the log of the last run.
Positions(call) == {i \in 1..Len(log) : log[i] = call}

-----------------------------------------------------------------------------
(* Properties *)

\* C1: in every reachable state of a session, whatever the user did and
\* whatever the collaborators answered, step is one of 1, 2, 3.
StepInRange == step \in {1, 2, 3}

\* A full cycle has been walked: the results view was left for step 1.
StepInRangeWitness == clicked = "Start New Analysis" /\ step = 1

\* C2: a click on "Continue to Analysis Options" with no resume text or
\* with a blank job description is rejected: a validation error is shown and
\* step remains 1.
ContinueRejectsMissingInput ==
    (/\ clicked = "Continue to Analysis Options"
     /\ \/ resume_content \in {None, << >>}
        \/ Blank(job_description))
    => /\ step = 1
       /\ \E message \in ValidationErrors : Shown(message)

\* A resume is there and the job description is one whitespace: rejected.
ContinueRejectsWitness ==
    /\ clicked = "Continue to Analysis Options"
    /\ Present(resume_content)
    /\ job_description = <<" ">>
    /\ step = 1

\* C3: a click on "Analyze Now" with no option selected, or with the custom
\* option and a blank custom question, is rejected: step remains 2 and the
\* Remote Analysis Client is not invoked.
AnalyzeRejectsMissingChoice ==
    (/\ clicked = "Analyze Now"
     /\ \/ analysis_option = NoOption
        \/ analysis_option = "custom" /\ Blank(custom_query))
    => /\ step = 2
       /\ ~ClientInvoked
       /\ response = NoResponse

\* The custom option with a whitespace question: rejected.
AnalyzeRejectsWitness ==
    /\ clicked = "Analyze Now"
    /\ analysis_option = "custom"
    /\ custom_query = <<" ">>
    /\ step = 2

\* C4: when "Analyze Now" is accepted and the Remote Analysis Client fails
\* (prompt blocked, exception, or an empty text), step remains 2, no analysis
\* result is held afterwards (None after a block or an exception, nothing
\* else than the empty text otherwise), a failure message is shown and the
\* Speech Synthesizer is not invoked.
FailedAnalysisStays ==
    (clicked = "Analyze Now" /\ ClientFailed)
    => /\ step = 2
       /\ ~Present(analysis_result)
       /\ response \in {Blocked, Raised} => analysis_result = None
       /\ Shown("st.error: Failed to generate analysis. Please try again.")
       /\ ~SynthesizerInvoked

\* A blocked prompt after an earlier analysis had succeeded.
FailedAnalysisWitness ==
    /\ clicked = "Analyze Now"
    /\ response = Blocked
    /\ Truthy(audio_path)
    /\ step = 2

\* C5: when "Analyze Now" is accepted and the Remote Analysis Client returns
\* a non-empty text, the run ends with step = 3 and analysis_result equal to
\* that text, whatever the Speech Synthesizer did.
AnalysisSuccessReachesResults ==
    (clicked = "Analyze Now" /\ ClientAnswered)
    => /\ step = 3
       /\ analysis_result = response

\* A text longer than the audio summary was returned and stored.
AnalysisSuccessWitness ==
    /\ clicked = "Analyze Now"
    /\ step = 3
    /\ Len(analysis_result) > SummaryChars
    /\ analysis_result = response
    /\ Truthy(audio_path)

ArtifactNeverOrphaned == \A path \in DOMAIN files : path = audio_path

\* C9: step = 3 only with an analysis result, and step 2 or 3 only with a
\* resume text and a non-blank job description.
StepImpliesInputs ==
    /\ step = 3 => Present(analysis_result)
    /\ step \in {2, 3} => Present(resume_content) /\ ~Blank(job_description)

\* Back at the options after a result, a failed analysis cleared the result.
StepImpliesInputsWitness ==
    /\ step = 2
    /\ clicked = "Analyze Now"
    /\ ClientFailed
    /\ analysis_result = None
    /\ next_path > 0

\* C10: a Speech Synthesizer failure during a successful analysis does not
\* block the transition: step is 3, analysis_result is the returned text and
\* audio_path is unset.
SynthesisFailureNotFatal ==
    (clicked = "Analyze Now" /\ ClientAnswered /\ SynthesizerFailed)
    => /\ step = 3
       /\ analysis_result = response
       /\ audio_path = None

\* The synthesis failed in an analysis that had first released an old clip.
SynthesisFailureWitness ==
    /\ clicked = "Analyze Now"
    /\ SynthesizerFailed
    /\ Called("os.unlink")
    /\ step = 3
    /\ audio_path = None

\* C11: a failure of the Document Text Extractor does not stop the session:
\* the run that hit it shows the failure, leaves resume_content unset and
\* step at 1 (also when the click on "Continue to Analysis Options" came with
\* it), and while no resume text is held step leaves 1 only in a run whose
\* extraction succeeded.
ExtractorFailureRecoverable ==
    [][/\ (Shown("st.error: Error processing PDF file"))'
          => /\ (Shown("st.error: Failed to process the PDF. Please try again."))'
             /\ resume_content' = None
             /\ step = 1 /\ step' = 1 /\ view' = 1
       /\ (~Present(resume_content) /\ step = 1 /\ step' # 1)
          => /\ (Called("fitz.open"))'
             /\ (Shown("st.success: Resume uploaded successfully!"))']_vars

\* The click on Continue came with a failing extraction and was rejected.
ExtractorFailureWitness ==
    /\ clicked = "Continue to Analysis Options"
    /\ Shown("st.error: Error processing PDF file")
    /\ Shown("st.error: Please upload your resume to continue.")
    /\ resume_content = None
    /\ ~Blank(job_description)
    /\ step = 1

StartupHaltsWithoutCredential ==
    api_key \in {None, << >>}
    => /\ log = StartupError
       /\ step = NoStep
       /\ resume_content = Absent
       /\ job_description = Absent
       /\ analysis_option = AbsentOption
       /\ custom_query = Absent
       /\ analysis_result = Absent
       /\ audio_path = Absent
       /\ view = NoStep
       /\ ~ENABLED Next
       /\ request = NoRequest
       /\ response = NoResponse
       /\ files = << >>
       /\ next_path = 0

\* A process without the key has run main() and stopped.
StartupHaltsWitness ==
    /\ api_key = None
    /\ Shown("st.error: GEMINI_API_KEY not found")
    /\ Called("st.stop")
    /\ step = NoStep

\* C14: there are no automatic retries: a run calls the Remote Analysis
\* Client at most once and the Speech Synthesizer at most once, both only for
\* a click on "Analyze Now", the synthesizer only after the client call of
\* the same run returned a text; a click on "Back", "Back to Analysis
\* Options" or "Start New Analysis" calls neither of them nor the extractor.
NoAutomaticRetries ==
    /\ Cardinality(Positions("generate_content")) <= 1
    /\ Cardinality(Positions("gTTS")) <= 1
    /\ Called("generate_content") => clicked = "Analyze Now"
    /\ Called("gTTS")
       => /\ clicked = "Analyze Now"
          /\ Truthy(response) /\ response \notin {NoResponse, Blocked, Raised}
          /\ \A i \in Positions("gTTS") :
                \E j \in Positions("generate_content") : j < i
    /\ clicked \in {"Back", "Back to Analysis Options", "Start New Analysis"}
       => /\ ~Called("generate_content")
          /\ ~Called("gTTS")
          /\ ~Called("fitz.open")
          /\ request = NoRequest

\* A click on Analyze Now whose client call raised: one call, no synthesis.
NoAutomaticRetriesWitness ==
    /\ clicked = "Analyze Now"
    /\ response = Raised
    /\ Cardinality(Positions("generate_content")) = 1
    /\ ~Called("gTTS")

DistanceToUpload == IF step = 1 THEN 0 ELSE IF view = step THEN 1 ELSE 2

\* C16: the step machine has no terminal state: in every reachable state of
\* a session with the credential some user action is enabled, and from every
\* reachable state step 1 is reachable by user actions: outside step 1 some
\* enabled action leads to a state strictly closer to step 1.
NoTerminalState ==
    /\ ENABLED Next
    /\ step # 1 => ENABLED (Next /\ DistanceToUpload' < DistanceToUpload)

\* The state after a successful analysis, two interactions away from step 1.
NoTerminalStateWitness ==
    /\ clicked = "Analyze Now"
    /\ step = 3
    /\ view = 2
    /\ DistanceToUpload = 2

\* C17: the prompt passed to the Remote Analysis Client is determined by
\* analysis_option alone for the eight fixed options (any custom_query gives
\* the same prompt) and is exactly the text of custom_query when the option
\* is "custom"; the catalog has exactly the nine keys offered for selection.
PromptDeterminedByOption ==
    /\ request # NoRequest
       => /\ analysis_option \in analysis_options
          /\ analysis_option # "custom"
             => \A query \in Texts :
                   request[1] = get_analysis_prompts(query)[analysis_option]
          /\ analysis_option = "custom" => request[1] = custom_query
    /\ DOMAIN get_analysis_prompts(custom_query) = analysis_options
    /\ Cardinality(analysis_options) = 9
    /\ Cardinality(analysis_options \ {"custom"}) = 8

\* The client was called for a fixed option while a custom question was held.
PromptDeterminedWitness ==
    /\ clicked = "Analyze Now"
    /\ request # NoRequest
    /\ analysis_option = "linkedin"
    /\ ~Blank(custom_query)

\* C19: after each user action that changes step (Continue, Back, a
\* successful Analyze, Back to Analysis Options, Start New Analysis) the view
\* rendered by the run of that action is the view of the updated step.
RenderedViewFollowsStep ==
    clicked \in {"Continue to Analysis Options", "Back", "Analyze Now",
                 "Back to Analysis Options", "Start New Analysis"}
    => view = step

\* C20: in every run of the step-3 branch the download button is constructed
\* with a present analysis_result as its data, also in the run in which
\* "Start New Analysis" is clicked.
DownloadDataPresent ==
    view = 3 => download_data # NotRendered /\ Present(download_data)

AudioMatchesResult ==
    (step = 3 /\ Truthy(audio_path))
    => /\ Present(analysis_result)
       /\ audio_path \in DOMAIN files
       /\ files[audio_path].saved
       /\ files[audio_path].text = Slice(analysis_result, SummaryChars)
       /\ Len(files[audio_path].text) <= SummaryChars

\* The second analysis of a session gave a text longer than the summary, and
\* the audio file of the first analysis is gone.
AudioMatchesResultWitness ==
    /\ step = 3
    /\ audio_path = TempName(2)
    /\ DOMAIN files = {audio_path}
    /\ Len(analysis_result) > SummaryChars
    /\ Len(files[audio_path].text) = SummaryChars

====
